---- MODULE Spec2Model ----
(***************************************************************************)
(* Model of the Next.js script parser (src/src/parser.ts) and of the UI    *)
(* state of src/src/app.tsx.                                               *)
(*                                                                         *)
(* A JavaScript string is a sequence of one-character strings.  Positions  *)
(* are 0-based as in the source: CharAt(s, i) is s[i] of the source.       *)
(* A decoded JSON value is a record [t |-> tag, v |-> payload] with tag    *)
(* "str" (v: characters), "num" (v: integer), "bool", "null",              *)
(* "arr" (v: sequence of values) or "obj" (v: sequence of <<key, value>>   *)
(* in insertion order).                                                    *)
(***************************************************************************)
EXTENDS Integers, Sequences, FiniteSets, TLC

\* ------------------------------------------------------------------------
\* Bounds of the model
\* ------------------------------------------------------------------------
\* the number of segments (calls or stretches of other text) of a document
MaxSegments == 2

\* the number of units of the text inside a string literal
MaxFiller == 2

\* the number of elements of a decoded sequence
MaxItems == 2

\* ------------------------------------------------------------------------
\* JavaScript string primitives
\* ------------------------------------------------------------------------
Chars(s) == [i \in 1..Len(s) |-> SubSeq(s, i, i)]

CharAt(s, i) == s[i + 1]

Min(a, b) == IF a < b THEN a ELSE b

Max(a, b) == IF a > b THEN a ELSE b

\* String.prototype.substring(a, b) for 0 <= a
substring(s, a, b) == SubSeq(s, Min(a, Len(s)) + 1, Min(b, Len(s)))

\* String.prototype.slice(a) / substring(a)
substringFrom(s, a) == SubSeq(s, Min(a, Len(s)) + 1, Len(s))

StartsWithAt(s, t, i) ==
    /\ i >= 0
    /\ i + Len(t) <= Len(s)
    /\ SubSeq(s, i + 1, i + Len(t)) = t

\* String.prototype.indexOf(t, from): least position >= from, or -1
indexOf(s, t, from) ==
    LET hits == {i \in Max(from, 0)..(Len(s) - Len(t)) : StartsWithAt(s, t, i)}
    IN  IF hits = {} THEN -1 ELSE CHOOSE i \in hits : \A j \in hits : i <= j

\* String.prototype.lastIndexOf(t): greatest position, or -1
lastIndexOf(s, t) ==
    LET hits == {i \in 0..(Len(s) - Len(t)) : StartsWithAt(s, t, i)}
    IN  IF hits = {} THEN -1 ELSE CHOOSE i \in hits : \A j \in hits : i >= j

includes(s, t) == indexOf(s, t, 0) # -1

\* the characters matched by the regular expression class \s that occur
\* in the inputs of this model
IsWhitespace(c) == c \in {" ", "\n", "\t", "\r"}

RECURSIVE SkipWhitespace(_, _)
\* while (cursor < content.length && /\s/.test(content[cursor])) cursor++
SkipWhitespace(content, cursor) ==
    IF cursor < Len(content) /\ IsWhitespace(CharAt(content, cursor))
    THEN SkipWhitespace(content, cursor + 1)
    ELSE cursor

RECURSIVE TrimStart(_)
TrimStart(s) ==
    IF s # <<>> /\ IsWhitespace(Head(s)) THEN TrimStart(Tail(s)) ELSE s

RECURSIVE TrimEnd(_)
TrimEnd(s) ==
    IF s # <<>> /\ IsWhitespace(s[Len(s)])
    THEN TrimEnd(SubSeq(s, 1, Len(s) - 1)) ELSE s

\* String.prototype.trim()
trim(s) == TrimEnd(TrimStart(s))

RECURSIVE CollapseRange(_, _, _)
CollapseRange(s, lo, hi) ==
    IF lo > hi THEN <<>>
    ELSE IF lo = hi
         THEN IF ~IsWhitespace(s[lo]) THEN <<s[lo]>>
              ELSE IF lo > 1 /\ IsWhitespace(s[lo - 1]) THEN <<>>
                   ELSE <<" ">>
         ELSE LET mid == (lo + hi) \div 2 IN
              CollapseRange(s, lo, mid) \o CollapseRange(s, mid + 1, hi)

\* s.replace(/\s+/g, ' '): every maximal run of whitespace becomes one space
CollapseWhitespace(s) == CollapseRange(s, 1, Len(s))

\* ------------------------------------------------------------------------
\* findMatchingBracket (parser.ts 422-462)
\* ------------------------------------------------------------------------
NoChar == "none"

\* the backtick character, which a TLA+ string literal cannot hold
Backtick == "backtick"

QuoteChars == {"\"", "'", Backtick}

\* MatchStep without the string mode: every bracket counts
MatchStepNoStrings(st, i, char) ==
    IF char = "["
    THEN [st EXCEPT !.depth = st.depth + 1]
    ELSE IF char = "]"
         THEN IF st.depth - 1 = 0
              THEN [st EXCEPT !.depth = 0, !.result = i]
              ELSE [st EXCEPT !.depth = st.depth - 1]
         ELSE st

\* The body of the for loop of findMatchingBracket at position i.  The
\* state holds the locals depth, inString and stringChar; skip is set where
\* the body does i++ before continue (the character after a backslash is
\* not looked at); result is the value returned, -1 while none is.
MatchStep(st, i, char) ==
    IF st.skip THEN [st EXCEPT !.skip = FALSE]
    ELSE IF st.inString
         THEN IF char = "\\"
              THEN [st EXCEPT !.skip = TRUE]
              ELSE IF char = st.stringChar
                   THEN [st EXCEPT !.inString = FALSE, !.stringChar = NoChar]
                   ELSE st
         ELSE IF char \in QuoteChars
              THEN [st EXCEPT !.inString = TRUE, !.stringChar = char]
              ELSE IF char = "["
                   THEN [st EXCEPT !.depth = st.depth + 1]
                   ELSE IF char = "]"
                        THEN IF st.depth - 1 = 0
                             THEN [st EXCEPT !.depth = 0, !.result = i]
                             ELSE [st EXCEPT !.depth = st.depth - 1]
                        ELSE st

RECURSIVE MatchLoop(_, _, _, _)
\* the loop over the positions lo..hi in increasing order, left at the
\* first position that returns (the range is halved to keep the evaluation
\* shallow; the positions are visited one by one, in order)
MatchLoop(content, st, lo, hi) ==
    IF lo > hi THEN st
    ELSE IF lo = hi THEN MatchStep(st, lo, CharAt(content, lo))
    ELSE LET mid  == (lo + hi) \div 2
             left == MatchLoop(content, st, lo, mid)
         IN  IF left.result # -1 THEN left
             ELSE MatchLoop(content, left, mid + 1, hi)

findMatchingBracket(content, startIndex) ==
    MatchLoop(content,
              [depth |-> 0, inString |-> FALSE, stringChar |-> NoChar,
               skip |-> FALSE, result |-> -1],
              startIndex, Len(content) - 1).result

\* ------------------------------------------------------------------------
\* extractPushCalls (parser.ts 370-420): one iteration of the while loop
\* ------------------------------------------------------------------------
pushToken == Chars("self.__next_f.push(")

\* ExtractIteration with searchIndex left as it was when no bracket
\* matches the opening one
ExtractIterationNoAdvance(content, searchIndex) ==
    LET start == indexOf(content, pushToken, searchIndex) IN
    IF start = -1
    THEN [path |-> "break", next |-> searchIndex, start |-> -1, end |-> -1]
    ELSE
    LET cursor == SkipWhitespace(content, start + Len(pushToken)) IN
    IF cursor >= Len(content) \/ CharAt(content, cursor) # "["
    THEN [path |-> "noBracket", next |-> cursor + 1,
          start |-> start, end |-> -1]
    ELSE
    LET arrayStart == cursor
        arrayEnd   == findMatchingBracket(content, arrayStart)
    IN
    IF arrayEnd = -1
    THEN [path |-> "noMatch", next |-> searchIndex,
          start |-> start, end |-> -1]
    ELSE
    LET afterArray == SkipWhitespace(content, arrayEnd + 1) IN
    IF afterArray >= Len(content) \/ CharAt(content, afterArray) # ")"
    THEN [path |-> "noParen", next |-> afterArray,
          start |-> start, end |-> -1]
    ELSE
    LET afterParen == afterArray + 1
        afterSemi  == IF afterParen < Len(content)
                         /\ CharAt(content, afterParen) = ";"
                      THEN afterParen + 1 ELSE afterParen
    IN  [path |-> "accept", next |-> afterSemi,
         start |-> start, end |-> afterSemi]

\* The outcome of one iteration started with the given searchIndex:
\*   path  which of the exits of the loop body was taken
\*   next  the new value of searchIndex
\*   start, end  the bounds of the slice of an accepted call
ExtractIteration(content, searchIndex) ==
    LET start == indexOf(content, pushToken, searchIndex) IN
    IF start = -1
    THEN [path |-> "break", next |-> searchIndex, start |-> -1, end |-> -1]
    ELSE
    LET cursor == SkipWhitespace(content, start + Len(pushToken)) IN
    IF cursor >= Len(content) \/ CharAt(content, cursor) # "["
    THEN [path |-> "noBracket", next |-> cursor + 1,
          start |-> start, end |-> -1]
    ELSE
    LET arrayStart == cursor
        arrayEnd   == findMatchingBracket(content, arrayStart)
    IN
    IF arrayEnd = -1
    THEN [path |-> "noMatch", next |-> arrayStart + 1,
          start |-> start, end |-> -1]
    ELSE
    LET afterArray == SkipWhitespace(content, arrayEnd + 1) IN
    IF afterArray >= Len(content) \/ CharAt(content, afterArray) # ")"
    THEN [path |-> "noParen", next |-> afterArray,
          start |-> start, end |-> -1]
    ELSE
    LET afterParen == afterArray + 1
        afterSemi  == IF afterParen < Len(content)
                         /\ CharAt(content, afterParen) = ";"
                      THEN afterParen + 1 ELSE afterParen
    IN  [path |-> "accept", next |-> afterSemi,
         start |-> start, end |-> afterSemi]

RECURSIVE ExtractLoop(_, _, _)
RECURSIVE ExtractFrom(_, _, _)
\* the while loop, continued after the iteration it
ExtractFrom(content, it, calls) ==
    IF it.path = "break" THEN calls
    ELSE IF it.path = "accept"
         THEN ExtractLoop(content, it.next,
                Append(calls, trim(substring(content, it.start, it.end))))
         ELSE ExtractLoop(content, it.next, calls)

ExtractLoop(content, searchIndex, calls) ==
    IF ~(searchIndex < Len(content)) THEN calls
    ELSE ExtractFrom(content, ExtractIteration(content, searchIndex), calls)

extractPushCalls(content) == ExtractLoop(content, 0, <<>>)

\* ------------------------------------------------------------------------
\* JSON values, JSON.parse and JSON.stringify
\* ------------------------------------------------------------------------
JStr(cs)  == [t |-> "str",  v |-> cs]

JNum(n)   == [t |-> "num",  v |-> n]

JBool(b)  == [t |-> "bool", v |-> b]

JNull     == [t |-> "null", v |-> 0]

JArr(xs)  == [t |-> "arr",  v |-> xs]

JObj(kvs) == [t |-> "obj",  v |-> kvs]

Str(s) == JStr(Chars(s))

IsString(x) == x.t = "str"

IsArray(x) == x.t = "arr"

\* x === '<s>' for a string literal s of the source
IsTheString(x, s) == x.t = "str" /\ x.v = Chars(s)

DigitChars == {"0", "1", "2", "3", "4", "5", "6", "7", "8", "9"}

DigitValue(c) ==
    CASE c = "0" -> 0 [] c = "1" -> 1 [] c = "2" -> 2 [] c = "3" -> 3
      [] c = "4" -> 4 [] c = "5" -> 5 [] c = "6" -> 6 [] c = "7" -> 7
      [] c = "8" -> 8 [] c = "9" -> 9

DigitChar(d) ==
    CASE d = 0 -> "0" [] d = 1 -> "1" [] d = 2 -> "2" [] d = 3 -> "3"
      [] d = 4 -> "4" [] d = 5 -> "5" [] d = 6 -> "6" [] d = 7 -> "7"
      [] d = 8 -> "8" [] d = 9 -> "9"

\* the value of an object's own property, as obj[key] = value sets it:
\* an existing key keeps its place, a new key goes last
ObjSet(kvs, key, val) ==
    IF \E i \in 1..Len(kvs) : kvs[i][1] = key
    THEN [i \in 1..Len(kvs) |->
            IF kvs[i][1] = key THEN <<key, val>> ELSE kvs[i]]
    ELSE Append(kvs, <<key, val>>)

ObjHas(kvs, key) == \E i \in 1..Len(kvs) : kvs[i][1] = key

ObjGet(kvs, key) ==
    kvs[CHOOSE i \in 1..Len(kvs) : kvs[i][1] = key][2]

ObjDelete(kvs, key) == SelectSeq(kvs, LAMBDA kv : kv[1] # key)

ParseFail == [ok |-> FALSE, val |-> JNull, pos |-> -1]

ParseOk(val, pos) == [ok |-> TRUE, val |-> val, pos |-> pos]

\* the character an escape sequence \c of a JSON string stands for; the
\* escapes \b, \f and \uXXXX do not occur in the inputs of this model
EscapedChars == {"\"", "\\", "/", "n", "t", "r"}

Unescape(c) ==
    CASE c = "n" -> "\n" [] c = "t" -> "\t" [] c = "r" -> "\r"
      [] OTHER -> c

ControlChars == {"\n", "\t", "\r"}

\* one character of a JSON string: status is "scan" inside the string,
\* "esc" after a backslash, "done" at the closing quote (pos is the position
\* after it) and "fail" at a character a JSON string cannot hold
StringStep(st, i, c) ==
    IF st.status = "esc"
    THEN IF c \in EscapedChars
         THEN [st EXCEPT !.status = "scan", !.acc = Append(st.acc, Unescape(c))]
         ELSE [st EXCEPT !.status = "fail"]
    ELSE IF c = "\"" THEN [st EXCEPT !.status = "done", !.pos = i + 1]
    ELSE IF c = "\\" THEN [st EXCEPT !.status = "esc"]
    ELSE IF c \in ControlChars THEN [st EXCEPT !.status = "fail"]
    ELSE [st EXCEPT !.acc = Append(st.acc, c)]

RECURSIVE StringLoop(_, _, _, _)
StringLoop(s, st, lo, hi) ==
    IF lo > hi THEN st
    ELSE IF lo = hi THEN StringStep(st, lo, CharAt(s, lo))
    ELSE LET mid  == (lo + hi) \div 2
             left == StringLoop(s, st, lo, mid)
         IN  IF left.status \in {"done", "fail"} THEN left
             ELSE StringLoop(s, left, mid + 1, hi)

\* the characters of a JSON string up to its closing quote, from position i
ParseStringBody(s, i) ==
    LET st == StringLoop(s, [status |-> "scan", acc |-> <<>>, pos |-> -1],
                         i, Len(s) - 1)
    IN  IF st.status = "done" THEN ParseOk(JStr(st.acc), st.pos) ELSE ParseFail

RECURSIVE ParseDigits(_, _, _)
ParseDigits(s, i, n) ==
    IF i < Len(s) /\ CharAt(s, i) \in DigitChars
    THEN ParseDigits(s, i + 1, 10 * n + DigitValue(CharAt(s, i)))
    ELSE ParseOk(JNum(n), i)

\* a JSON integer: 0 or a digit sequence without a leading 0, optionally
\* negated (fractions and exponents do not occur in the inputs)
ParseNumber(s, i) ==
    LET neg == CharAt(s, i) = "-"
        j   == IF neg THEN i + 1 ELSE i
    IN  IF ~(j < Len(s) /\ CharAt(s, j) \in DigitChars) THEN ParseFail
        ELSE LET r == IF CharAt(s, j) = "0"
                      THEN ParseOk(JNum(0), j + 1)
                      ELSE ParseDigits(s, j, 0)
             IN  IF r.pos < Len(s) /\ CharAt(s, r.pos) \in {".", "e", "E"}
                 THEN ParseFail
                 ELSE IF neg THEN ParseOk(JNum(0 - r.val.v), r.pos) ELSE r

RECURSIVE ParseValue(_, _)
RECURSIVE ParseArrayItems(_, _, _)
RECURSIVE ParseObjectMembers(_, _, _)

\* the JSON value that starts at or after position i
ParseValue(s, i) ==
    LET j == SkipWhitespace(s, i) IN
    IF j >= Len(s) THEN ParseFail
    ELSE LET c == CharAt(s, j) IN
         IF c = "\"" THEN ParseStringBody(s, j + 1)
         ELSE IF c = "["
              THEN LET k == SkipWhitespace(s, j + 1) IN
                   IF k < Len(s) /\ CharAt(s, k) = "]"
                   THEN ParseOk(JArr(<<>>), k + 1)
                   ELSE ParseArrayItems(s, j + 1, <<>>)
         ELSE IF c = "{"
              THEN LET k == SkipWhitespace(s, j + 1) IN
                   IF k < Len(s) /\ CharAt(s, k) = "}"
                   THEN ParseOk(JObj(<<>>), k + 1)
                   ELSE ParseObjectMembers(s, j + 1, <<>>)
         ELSE IF c \in DigitChars \cup {"-"} THEN ParseNumber(s, j)
         ELSE IF StartsWithAt(s, Chars("null"), j)
              THEN ParseOk(JNull, j + 4)
         ELSE IF StartsWithAt(s, Chars("true"), j)
              THEN ParseOk(JBool(TRUE), j + 4)
         ELSE IF StartsWithAt(s, Chars("false"), j)
              THEN ParseOk(JBool(FALSE), j + 5)
         ELSE ParseFail

\* the elements of an array from position i, after "[" or ","
ParseArrayItems(s, i, acc) ==
    LET r == ParseValue(s, i) IN
    IF ~r.ok THEN ParseFail
    ELSE LET k == SkipWhitespace(s, r.pos) IN
         IF k >= Len(s) THEN ParseFail
         ELSE IF CharAt(s, k) = ","
              THEN ParseArrayItems(s, k + 1, Append(acc, r.val))
              ELSE IF CharAt(s, k) = "]"
                   THEN ParseOk(JArr(Append(acc, r.val)), k + 1)
                   ELSE ParseFail

\* the members of an object from position i, after "{" or ","
ParseObjectMembers(s, i, acc) ==
    LET j == SkipWhitespace(s, i) IN
    IF ~(j < Len(s) /\ CharAt(s, j) = "\"") THEN ParseFail
    ELSE LET key == ParseStringBody(s, j + 1) IN
         IF ~key.ok THEN ParseFail
         ELSE LET c == SkipWhitespace(s, key.pos) IN
              IF ~(c < Len(s) /\ CharAt(s, c) = ":") THEN ParseFail
              ELSE LET r == ParseValue(s, c + 1) IN
                   IF ~r.ok THEN ParseFail
                   ELSE LET k   == SkipWhitespace(s, r.pos)
                            obj == ObjSet(acc, key.val.v, r.val)
                        IN  IF k >= Len(s) THEN ParseFail
                            ELSE IF CharAt(s, k) = ","
                                 THEN ParseObjectMembers(s, k + 1, obj)
                                 ELSE IF CharAt(s, k) = "}"
                                      THEN ParseOk(JObj(obj), k + 1)
                                      ELSE ParseFail

\* the parsed value r is the whole text, up to trailing whitespace
WholeText(text, r) ==
    IF r.ok /\ SkipWhitespace(text, r.pos) = Len(text)
    THEN [ok |-> TRUE, val |-> r.val]
    ELSE [ok |-> FALSE, val |-> JNull]

\* JSON.parse(text): ok is FALSE where the source throws a SyntaxError
JSONparse(text) == WholeText(text, ParseValue(text, 0))

RECURSIVE NatChars(_)
NatChars(n) ==
    IF n < 10 THEN <<DigitChar(n)>>
    ELSE NatChars(n \div 10) \o <<DigitChar(n % 10)>>

NumChars(n) == IF n < 0 THEN <<"-">> \o NatChars(0 - n) ELSE NatChars(n)

EscapeChar(c) ==
    CASE c = "\"" -> <<"\\", "\"">>
      [] c = "\\" -> <<"\\", "\\">>
      [] c = "\n" -> <<"\\", "n">>
      [] c = "\t" -> <<"\\", "t">>
      [] c = "\r" -> <<"\\", "r">>
      [] OTHER    -> <<c>>

RECURSIVE EscapeRange(_, _, _)
EscapeRange(cs, lo, hi) ==
    IF lo > hi THEN <<>>
    ELSE IF lo = hi THEN EscapeChar(cs[lo])
         ELSE LET mid == (lo + hi) \div 2 IN
              EscapeRange(cs, lo, mid) \o EscapeRange(cs, mid + 1, hi)

EscapeChars(cs) == EscapeRange(cs, 1, Len(cs))

\* JSON.stringify of a string
QuoteString(cs) == <<"\"">> \o EscapeChars(cs) \o <<"\"">>

RECURSIVE JoinWith(_, _)
\* Array.prototype.join(sep)
JoinWith(parts, sep) ==
    IF parts = <<>> THEN <<>>
    ELSE IF Len(parts) = 1 THEN parts[1]
         ELSE parts[1] \o sep \o JoinWith(Tail(parts), sep)

RECURSIVE JSONstringify(_)
\* JSON.stringify(value) without indentation
JSONstringify(x) ==
    CASE x.t = "str"  -> QuoteString(x.v)
      [] x.t = "num"  -> NumChars(x.v)
      [] x.t = "bool" -> IF x.v THEN Chars("true") ELSE Chars("false")
      [] x.t = "null" -> Chars("null")
      [] x.t = "arr"  ->
            <<"[">> \o JoinWith([i \in 1..Len(x.v) |-> JSONstringify(x.v[i])],
                                <<",">>) \o <<"]">>
      [] x.t = "obj"  ->
            <<"{">> \o JoinWith([i \in 1..Len(x.v) |->
                                   QuoteString(x.v[i][1]) \o <<":">>
                                     \o JSONstringify(x.v[i][2])],
                                <<",">>) \o <<"}">>

\* ------------------------------------------------------------------------
\* detectDataType (parser.ts 181-194)
\* ------------------------------------------------------------------------
HexLowerChars == DigitChars \cup {"a", "b", "c", "d", "e", "f"}

LowerChars ==
    {"a", "b", "c", "d", "e", "f", "g", "h", "i", "j", "k", "l", "m",
     "n", "o", "p", "q", "r", "s", "t", "u", "v", "w", "x", "y", "z"}

UpperChars ==
    {"A", "B", "C", "D", "E", "F", "G", "H", "I", "J", "K", "L", "M",
     "N", "O", "P", "Q", "R", "S", "T", "U", "V", "W", "X", "Y", "Z"}

\* the length of the longest prefix of data made of characters of class
LeadingRun(data, class) ==
    LET stops == {i \in 0..Len(data) :
                    i = Len(data) \/ CharAt(data, i) \notin class}
    IN  CHOOSE i \in stops : \A j \in stops : i <= j

\* /^<class>+<rest>/.test(data), for a rest whose first character is not
\* in the class
MatchesKeyThen(data, class, rest) ==
    LET n == LeadingRun(data, class) IN
    n >= 1 /\ StartsWithAt(data, rest, n)

\* detectDataType with the component-data pattern tried first
detectDataTypeComponentFirst(data) ==
    IF MatchesKeyThen(data, DigitChars \cup LowerChars \cup UpperChars,
                      Chars(":["))
    THEN "component-data"
    ELSE IF \/ MatchesKeyThen(data, HexLowerChars, Chars(":I["))
            \/ includes(data, Chars("static/chunks/"))
         THEN "module-loading"
         ELSE "unknown"

detectDataType(data) ==
    IF \/ MatchesKeyThen(data, HexLowerChars, Chars(":I["))
       \/ includes(data, Chars("static/chunks/"))
    THEN "module-loading"
    ELSE IF MatchesKeyThen(data, DigitChars \cup LowerChars \cup UpperChars,
                           Chars(":["))
         THEN "component-data"
         ELSE "unknown"

\* ------------------------------------------------------------------------
\* extractDataFromScript (parser.ts 196-229)
\* ------------------------------------------------------------------------
\* the message of the SyntaxError of JSON.parse (its text is the engine's)
SyntaxErrorMessage == "Unexpected token"

EndsWith(s, t) == Len(s) >= Len(t) /\ SubSeq(s, Len(s) - Len(t) + 1, Len(s)) = t

\* content.replace(/\\n(?="\]$)/, ''): the lookahead holds only at the
\* position just before the last two characters
StripNewlineBeforeClose(content) ==
    IF EndsWith(content, <<"\\", "n", "\"", "]">>)
    THEN SubSeq(content, 1, Len(content) - 4) \o <<"\"", "]">>
    ELSE content

\* content.replace(/\\n$/, '')
StripNewlineAtEnd(content) ==
    IF EndsWith(content, <<"\\", "n">>)
    THEN SubSeq(content, 1, Len(content) - 2)
    ELSE content

\* the try block of extractDataFromScript (parser.ts 219-228), for the
\* outcome of JSON.parse(content)
StringifyOrThrow(result) ==
    IF result.ok
    THEN [threw |-> FALSE, message |-> "", value |-> JSONstringify(result.val)]
    ELSE [threw |-> TRUE,
          message |-> "Unable to parse script content as JSON: "
                        \o SyntaxErrorMessage,
          value |-> <<>>]

\* threw is TRUE where the source throws, with the message of the Error
extractDataFromScript(scriptContent) ==
    LET prefix     == Chars("self.__next_f.push([")
        suffix     == Chars("])")
        startIndex == indexOf(scriptContent, prefix, 0)
    IN
    IF startIndex = -1
    THEN [threw |-> TRUE, message |-> "Invalid Next.js script format",
          value |-> <<>>]
    ELSE
    LET contentStart == startIndex + Len(prefix)
        contentEnd   == lastIndexOf(scriptContent, suffix)
    IN
    IF contentEnd = -1 \/ contentEnd <= contentStart
    THEN [threw |-> TRUE,
          message |-> "Invalid Next.js script format - mismatched brackets",
          value |-> <<>>]
    ELSE
    LET wrapped == <<"[">> \o substring(scriptContent, contentStart, contentEnd)
                           \o <<"]">>
        content == StripNewlineAtEnd(StripNewlineBeforeClose(wrapped))
    IN  StringifyOrThrow(JSONparse(content))

\* ------------------------------------------------------------------------
\* parseComponentStructure, parseComponent, parseChildren
\* (parser.ts 231-323)
\* ------------------------------------------------------------------------
\* A ParsedComponent.  component holds the JSON value the source stores in
\* the field; hasChildren tells whether the optional field children is set.
\* An entry of children is a ParsedComponent or a string (a JStr value).
Component(type, component, props, hasChildren, children) ==
    [t |-> "node", type |-> type, component |-> component, props |-> props,
     hasChildren |-> hasChildren, children |-> children]

TextNode(content) ==
    Component("text", Str("text"), <<<<Chars("content"), content>>>>,
              FALSE, <<>>)

\* the null that parseComponent returns
NoComponent == [t |-> "none"]

\* ToBoolean of a JSON value
Truthy(x) ==
    CASE x.t = "str"  -> x.v # <<>>
      [] x.t = "num"  -> x.v # 0
      [] x.t = "bool" -> x.v
      [] x.t = "null" -> FALSE
      [] OTHER        -> TRUE

\* { ...props }: the own enumerable properties of props
SpreadProps(props) ==
    CASE props.t = "obj" -> props.v
      [] props.t = "arr" ->
            [i \in 1..Len(props.v) |-> <<NatChars(i - 1), props.v[i]>>]
      [] props.t = "str" ->
            [i \in 1..Len(props.v) |-> <<NatChars(i - 1), JStr(<<props.v[i]>>)>>]
      [] OTHER -> <<>>

\* props.children is a truthy value
HasTruthyChildren(props) ==
    /\ props.t = "obj"
    /\ ObjHas(props.v, Chars("children"))
    /\ Truthy(ObjGet(props.v, Chars("children")))

RECURSIVE parseComponentStructure(_)
RECURSIVE StructureLoop(_, _, _)
RECURSIVE parseComponent(_)
RECURSIVE parseChildren(_)
RECURSIVE ChildrenLoop(_, _, _)

parseComponentStructure(data) ==
    IF IsString(data) THEN <<TextNode(data)>>
    ELSE IF ~IsArray(data) THEN <<>>
    ELSE IF Len(data.v) > 0 /\ IsTheString(data.v[1], "$")
         THEN LET parsed == parseComponent(data.v) IN
              IF parsed.t # "none" THEN <<parsed>> ELSE <<>>
         ELSE StructureLoop(data.v, 1, <<>>)

RECURSIVE StructureLoopDropNested(_, _, _)
\* StructureLoop with a nested sequence dropped instead of expanded
StructureLoopDropNested(items, i, results) ==
    IF i > Len(items) THEN results
    ELSE LET item == items[i] IN
         IF IsString(item)
         THEN StructureLoopDropNested(items, i + 1,
                                      Append(results, TextNode(item)))
         ELSE IF IsArray(item)
              THEN LET parsed == parseComponent(item.v) IN
                   IF parsed.t # "none"
                   THEN StructureLoopDropNested(items, i + 1,
                                                Append(results, parsed))
                   ELSE StructureLoopDropNested(items, i + 1, results)
              ELSE StructureLoopDropNested(items, i + 1, results)

\* for (const item of data) of parseComponentStructure, from the i-th item
StructureLoop(items, i, results) ==
    IF i > Len(items) THEN results
    ELSE LET item == items[i] IN
         IF IsString(item)
         THEN StructureLoop(items, i + 1, Append(results, TextNode(item)))
         ELSE IF IsArray(item)
              THEN LET parsed == parseComponent(item.v) IN
                   IF parsed.t # "none"
                   THEN StructureLoop(items, i + 1, Append(results, parsed))
                   ELSE StructureLoop(items, i + 1,
                          results \o parseComponentStructure(item))
              ELSE StructureLoop(items, i + 1, results)

parseComponent(componentArray) ==
    IF Len(componentArray) < 3 \/ ~IsTheString(componentArray[1], "$")
    THEN NoComponent
    ELSE LET componentType == componentArray[2]
             props == IF Len(componentArray) >= 4 /\ Truthy(componentArray[4])
                      THEN componentArray[4]
                      ELSE JObj(<<>>)
         IN  IF HasTruthyChildren(props)
             THEN Component("component", componentType,
                            ObjDelete(SpreadProps(props), Chars("children")),
                            TRUE,
                            parseChildren(ObjGet(props.v, Chars("children"))))
             ELSE Component("component", componentType, SpreadProps(props),
                            FALSE, <<>>)

parseChildren(children) ==
    IF IsString(children) THEN <<children>>
    ELSE IF ~IsArray(children) THEN <<>>
    ELSE IF Len(children.v) > 0 /\ IsTheString(children.v[1], "$")
         THEN LET single == parseComponent(children.v) IN
              IF single.t # "none" THEN <<single>> ELSE <<>>
         ELSE ChildrenLoop(children.v, 1, <<>>)

\* for (const child of children) of parseChildren, from the i-th child
ChildrenLoop(items, i, results) ==
    IF i > Len(items) THEN results
    ELSE LET child == items[i] IN
         IF IsString(child)
         THEN ChildrenLoop(items, i + 1, Append(results, child))
         ELSE IF IsArray(child)
              THEN LET parsed == parseComponent(child.v) IN
                   IF parsed.t # "none"
                   THEN ChildrenLoop(items, i + 1, Append(results, parsed))
                   ELSE ChildrenLoop(items, i + 1,
                          results \o parseChildren(child))
              ELSE ChildrenLoop(items, i + 1,
                     results \o parseComponentStructure(JArr(<<child>>)))

\* ------------------------------------------------------------------------
\* parseScriptContentDetailed (parser.ts 90-179)
\* ------------------------------------------------------------------------
\* the value of an optional field that is not set
Undefined == "undefined"

\* A ParseResult (the diagnostic field debugInfo is left out)
Failure(error) ==
    [success |-> FALSE, components |-> <<>>, error |-> error,
     dataType |-> Undefined]

Success(components, dataType) ==
    [success |-> TRUE, components |-> components, error |-> Undefined,
     dataType |-> dataType]

\* AfterColonParsed with a failed parse taken as an empty success
AfterColonParsedLenient(inner) ==
    IF inner.ok
    THEN Success(parseComponentStructure(inner.val), "component-data")
    ELSE Success(<<>>, "component-data")

\* parser.ts 135-145: the outcome of JSON.parse(dataAfterColon)
AfterColonParsed(inner) ==
    IF inner.ok
    THEN Success(parseComponentStructure(inner.val), "component-data")
    ELSE Failure("Failed to parse component data structure")

\* parser.ts 146-155: the outcome of JSON.parse(componentData), whose
\* failure is caught and leaves componentData as it was
WholeStringParsed(inner, componentData) ==
    Success(parseComponentStructure(
              IF inner.ok THEN inner.val ELSE componentData),
            "component-data")

\* StringPayload with the text after the colon decoded for a string of
\* unknown type too
StringPayloadDecodesUnknown(componentData, dataType) ==
    IF dataType = "module-loading"
    THEN Success(<<>>, "module-loading")
    ELSE IF dataType = "component-data" /\ includes(componentData.v, <<":">>)
         THEN AfterColonParsed(
                JSONparse(substringFrom(componentData.v,
                            indexOf(componentData.v, <<":">>, 0) + 1)))
         ELSE IF dataType = "component-data"
              THEN WholeStringParsed(JSONparse(componentData.v), componentData)
              ELSE IF includes(componentData.v, <<":">>)
                   THEN WholeStringParsed(
                          JSONparse(substringFrom(componentData.v,
                                      indexOf(componentData.v, <<":">>, 0) + 1)),
                          componentData)
                   ELSE Success(parseComponentStructure(componentData),
                                "component-data")

\* parser.ts 122-155, for a string componentData of the detected type
StringPayload(componentData, dataType) ==
    IF dataType = "module-loading"
    THEN Success(<<>>, "module-loading")
    ELSE IF dataType = "component-data" /\ includes(componentData.v, <<":">>)
         THEN LET colonIndex == indexOf(componentData.v, <<":">>, 0) IN
              AfterColonParsed(
                JSONparse(substringFrom(componentData.v, colonIndex + 1)))
         ELSE IF dataType = "component-data"
              THEN WholeStringParsed(JSONparse(componentData.v), componentData)
              ELSE Success(parseComponentStructure(componentData),
                           "component-data")

\* Steps 3 and 4 (parser.ts 111-166)
ParsePayload(componentData) ==
    IF IsString(componentData)
    THEN StringPayload(componentData, detectDataType(componentData.v))
    ELSE Success(parseComponentStructure(componentData), "component-data")

\* parser.ts 99-166, for the outcome of JSON.parse(cleanContent)
AfterParse(parsedData) ==
    IF ~parsedData.ok
    THEN Failure("Parse failed: " \o SyntaxErrorMessage)
    ELSE IF ~IsArray(parsedData.val) \/ Len(parsedData.val.v) < 2
         THEN Failure("Invalid data structure: Expected array with at least 2 elements")
         ELSE ParsePayload(parsedData.val.v[2])

\* parser.ts 95-178, for the outcome of extractDataFromScript
AfterExtract(cleanContent) ==
    IF cleanContent.threw
    THEN Failure("Parse failed: " \o cleanContent.message)
    ELSE AfterParse(JSONparse(cleanContent.value))

parseScriptContentDetailed(scriptContent) ==
    AfterExtract(extractDataFromScript(scriptContent))

\* ------------------------------------------------------------------------
\* Inputs: the documents the parser is run on
\* ------------------------------------------------------------------------
\* the well-formed call of the end-to-end example
GoodDiv ==
    Chars("self.__next_f.push([1,\"4c:[\\\"$\\\",\\\"div\\\",null,{\\\"className\\\":\\\"a\\\",\\\"children\\\":\\\"hi\\\"}]\\n\"])")

\* a module reference (hex key, I[ marker)
ModuleChunk ==
    Chars("self.__next_f.push([1,\"1f:I[\\\"static/chunks/1.js\\\",[],\\\"x\\\"]\"]);")

\* component data whose text holds static/chunks/
ChunkLink ==
    Chars("self.__next_f.push([2,\"a1:[\\\"$\\\",\\\"link\\\",null,{\\\"href\\\":\\\"/static/chunks/a.css\\\"}]\"])")

\* the sample input of the UI (app.tsx 134)
SampleInput ==
    Chars("self.__next_f.push([1, \"4c:\\\"$Sreact.suspense\\\"\\n\"])")

\* a bracket left open inside the payload string, in a call of more than
\* 120 characters
BadPayload ==
    Chars("self.__next_f.push([1,\n    \"4c:[\\\"$\\\",\\\"div\\\",null,{\\\"className\\\":\\\"card  wide\\\",\\\"title\\\":\\\"A long title\\\",\\\"children\\\":[\\\"$\\\",\\\"span\\\",null,{\\\"children\\\":\\\"text\\\"}}]\"])")

\* one closing bracket too many inside the payload string
BadPayloadExtra ==
    Chars("self.__next_f.push([7,\"b:[\\\"a\\\"]]\"])")

\* a bracket left open in the array argument itself
OpenArray ==
    Chars("self.__next_f.push([1,[\"x\")")

\* one closing bracket too many in the array argument itself
ExtraClose ==
    Chars("self.__next_f.push([1,\"x\"]])")

\* the token without an array argument
NotACall ==
    Chars("self.__next_f.push(x)</script>")

\* whitespace inside the parentheses
SpacedCall ==
    Chars("self.__next_f.push( [3,\"b:[\\\"t\\\"]\"] )")

\* two calls: a module reference and an array of one element
ScriptPair ==
    Chars("<script>self.__next_f.push([1,\"2:I[\\\"m\\\"]\"])</script><script>self.__next_f.push([1])</script>")

\* a payload that is already structured
Structured ==
    Chars("self.__next_f.push([0,[\"top\",[\"$\",\"p\",null,{\"id\":\"x\",\"children\":[\"a\",[\"$\",\"b\",null,{}]]}],[[\"in\"],[\"$\",\"q\"]],7]])")

\* a descriptor with an empty tag and an empty children string
EmptyTag ==
    Chars("self.__next_f.push([1,\"5:[\\\"$\\\",\\\"\\\",null,{\\\"children\\\":\\\"\\\"}]\"])")

Segments ==
    <<GoodDiv, ModuleChunk, ChunkLink, SampleInput,
      BadPayload, BadPayloadExtra, OpenArray, ExtraClose,
      NotACall, SpacedCall, ScriptPair, Structured,
      EmptyTag>>

RECURSIVE JoinSegments(_, _)
\* the segments picked by the indices, one per line
JoinSegments(picks, i) ==
    IF i > Len(picks) THEN <<>>
    ELSE Segments[picks[i]]
           \o (IF i < Len(picks) THEN <<"\n">> ELSE <<>>)
           \o JoinSegments(picks, i + 1)

SegmentPicks == UNION {[1..n -> 1..Len(Segments)] : n \in 0..MaxSegments}

\* ------------------------------------------------------------------------
\* parseDocumentContent (parser.ts 44-88)
\* ------------------------------------------------------------------------
PreviewLength == 120

\* snippet.replace(/\s+/g, ' ').substring(0, 120)
SnippetPreview(snippet) == substring(CollapseWhitespace(snippet), 0, PreviewLength)

\* { ...parseResult, index, snippetPreview }
IndexedResult(parseResult, index, snippet) ==
    [success |-> parseResult.success, components |-> parseResult.components,
     error |-> parseResult.error, dataType |-> parseResult.dataType,
     index |-> index, snippetPreview |-> SnippetPreview(snippet)]

\* PushResult with the outcomes numbered from 1
PushResultFromOne(acc, parseResult, snippet, index) ==
    [results |-> Append(acc.results,
                        IndexedResult(parseResult, index + 1, snippet)),
     combinedComponents |->
        IF parseResult.success
        THEN acc.combinedComponents \o parseResult.components
        ELSE acc.combinedComponents]

\* PushResult with the nodes of a call put before those of earlier calls
PushResultPrepend(acc, parseResult, snippet, index) ==
    [results |-> Append(acc.results,
                        IndexedResult(parseResult, index, snippet)),
     combinedComponents |->
        IF parseResult.success
        THEN parseResult.components \o acc.combinedComponents
        ELSE acc.combinedComponents]

\* parser.ts 63-73: the callback's pushes, for the parseResult of the snippet
PushResult(acc, parseResult, snippet, index) ==
    [results |-> Append(acc.results,
                        IndexedResult(parseResult, index, snippet)),
     combinedComponents |->
        IF parseResult.success
        THEN acc.combinedComponents \o parseResult.components
        ELSE acc.combinedComponents]

\* the body of the forEach callback for the snippet at the given index
ForEachBody(acc, snippet, index) ==
    PushResult(acc, parseScriptContentDetailed(snippet), snippet, index)

EmptyAggregate ==
    [totalScripts |-> 0, successCount |-> 0, failureCount |-> 0,
     moduleLoadingCount |-> 0, results |-> <<>>, combinedComponents |-> <<>>]

\* Aggregate with every success counted in successCount
AggregateAllSuccesses(res, combined) ==
    [totalScripts |-> Len(res),
     successCount |-> Len(SelectSeq(res, LAMBDA r : r.success)),
     failureCount |-> Len(SelectSeq(res, LAMBDA r : ~r.success)),
     moduleLoadingCount |->
        Len(SelectSeq(res, LAMBDA r : r.dataType = "module-loading")),
     results |-> res,
     combinedComponents |-> combined]

\* the object returned at parser.ts 80-87
Aggregate(res, combined) ==
    [totalScripts |-> Len(res),
     successCount |->
        Len(SelectSeq(res, LAMBDA r :
                r.success /\ r.dataType = "component-data")),
     failureCount |-> Len(SelectSeq(res, LAMBDA r : ~r.success)),
     moduleLoadingCount |->
        Len(SelectSeq(res, LAMBDA r : r.dataType = "module-loading")),
     results |-> res,
     combinedComponents |-> combined]

AggregateOf(acc) == Aggregate(acc.results, acc.combinedComponents)

RECURSIVE ForEachLoop(_, _, _)
ForEachLoop(pushCalls, i, acc) ==
    IF i > Len(pushCalls) THEN acc
    ELSE ForEachLoop(pushCalls, i + 1, ForEachBody(acc, pushCalls[i], i - 1))

\* the whole call, as the UI makes it
\* parser.ts 47-87, for the snippets extractPushCalls returned
AggregateCalls(pushCalls) ==
    IF Len(pushCalls) = 0 THEN EmptyAggregate
    ELSE AggregateOf(ForEachLoop(pushCalls, 1,
                       [results |-> <<>>, combinedComponents |-> <<>>]))

parseDocumentContent(text) == AggregateCalls(extractPushCalls(text))

\* ------------------------------------------------------------------------
\* The formatters
\* ------------------------------------------------------------------------
\* ' '.repeat(n)
Spaces(n) == [i \in 1..n |-> " "]

RECURSIVE JSONstringifyIndented(_, _)
\* JSON.stringify(value, null, 2), for a value that starts at depth ind
JSONstringifyIndented(x, ind) ==
    IF x.t = "arr"
    THEN IF x.v = <<>> THEN Chars("[]")
         ELSE <<"[", "\n">>
              \o JoinWith([i \in 1..Len(x.v) |->
                             Spaces(ind + 2)
                             \o JSONstringifyIndented(x.v[i], ind + 2)],
                          <<",", "\n">>)
              \o <<"\n">> \o Spaces(ind) \o <<"]">>
    ELSE IF x.t = "obj"
    THEN IF x.v = <<>> THEN Chars("{}")
         ELSE <<"{", "\n">>
              \o JoinWith([i \in 1..Len(x.v) |->
                             Spaces(ind + 2) \o QuoteString(x.v[i][1])
                             \o <<":", " ">>
                             \o JSONstringifyIndented(x.v[i][2], ind + 2)],
                          <<",", "\n">>)
              \o <<"\n">> \o Spaces(ind) \o <<"}">>
    ELSE JSONstringify(x)

RECURSIVE NodeValue(_)
\* a ParsedComponent, or a string among its children, as the object that
\* JSON.stringify walks: the keys in the order parseComponent sets them
NodeValue(node) ==
    IF node.t # "node" THEN node
    ELSE JObj(<<<<Chars("type"), Str(node.type)>>,
                <<Chars("component"), node.component>>,
                <<Chars("props"), JObj(node.props)>>>>
              \o (IF node.hasChildren
                  THEN <<<<Chars("children"),
                           JArr([i \in 1..Len(node.children) |->
                                   NodeValue(node.children[i])])>>>>
                  ELSE <<>>))

formatAsReadableJson(components) ==
    JSONstringifyIndented(
        JArr([i \in 1..Len(components) |-> NodeValue(components[i])]), 0)

RECURSIVE TemplateString(_)
\* ${value}: the string conversion of a value in a template literal
TemplateString(x) ==
    CASE x.t = "str"  -> x.v
      [] x.t = "num"  -> NumChars(x.v)
      [] x.t = "bool" -> IF x.v THEN Chars("true") ELSE Chars("false")
      [] x.t = "null" -> Chars("null")
      [] x.t = "arr"  ->
            JoinWith([i \in 1..Len(x.v) |->
                        IF x.v[i].t = "null" THEN <<>>
                        ELSE TemplateString(x.v[i])], <<",">>)
      [] x.t = "obj"  -> Chars("[object Object]")

\* parser.ts 342-350: the text of one property
PropString(key, value) ==
    IF IsString(value)
    THEN key \o <<"=", "\"">> \o value.v \o <<"\"">>
    ELSE IF value.t \in {"arr", "obj"}
         THEN key \o <<"=", "{">> \o JSONstringify(value) \o <<"}">>
         ELSE key \o <<"=", "{">> \o TemplateString(value) \o <<"}">>

\* parser.ts 340-352
PropsString(props) ==
    LET kept == SelectSeq(props, LAMBDA kv : kv[2].t # "null")
        propStrings == [i \in 1..Len(kept) |-> PropString(kept[i][1], kept[i][2])]
    IN  IF Len(propStrings) > 0
        THEN <<" ">> \o JoinWith(propStrings, <<" ">>)
        ELSE <<>>

RECURSIVE componentToReactString(_, _)
componentToReactString(component, indent) ==
    LET spaces == Spaces(2 * indent)
        tag    == TemplateString(component.component)
    IN
    IF component.type = "text"
    THEN spaces \o JSONstringify(ObjGet(component.props, Chars("content")))
    ELSE IF ~component.hasChildren \/ Len(component.children) = 0
    THEN spaces \o <<"<">> \o tag \o PropsString(component.props)
           \o <<" ", "/", ">">>
    ELSE spaces \o <<"<">> \o tag \o PropsString(component.props)
           \o <<">", "\n">>
           \o JoinWith([i \in 1..Len(component.children) |->
                          IF component.children[i].t = "str"
                          THEN Spaces(2 * (indent + 1))
                               \o JSONstringify(component.children[i])
                          ELSE componentToReactString(component.children[i],
                                                      indent + 1)],
                       <<"\n">>)
           \o <<"\n">> \o spaces \o <<"<", "/">> \o tag \o <<">">>

formatAsReactComponents(components) ==
    JoinWith([i \in 1..Len(components) |->
                componentToReactString(components[i], 0)], <<"\n">>)

\* ------------------------------------------------------------------------
\* Inputs: calls with a string literal that holds brackets
\* ------------------------------------------------------------------------
\* what may stand inside a string literal quoted by q: brackets, a closing
\* parenthesis, the quote escaped, a backslash escaped, another character
FillerUnits(q) ==
    {<<"[">>, <<"]">>, <<")">>, <<"x">>, <<"\\", q>>, <<"\\", "\\">>}

RECURSIVE Fillers(_, _)
\* the texts made of at most n units
Fillers(q, n) ==
    IF n = 0 THEN {<<>>}
    ELSE Fillers(q, n - 1)
           \cup {f \o u : f \in Fillers(q, n - 1), u \in FillerUnits(q)}

\* the string literals of at most MaxFiller units, in each kind of quotes
QuotedLiterals ==
    UNION {{<<q>> \o f \o <<q>> : f \in Fillers(q, MaxFiller)} : q \in QuoteChars}

\* the array argument around the string literal
ArrayTexts(literal) ==
    {Chars("[1,") \o literal \o Chars("]"),
     Chars("[[0],") \o literal \o Chars(",[2]]")}

\* a document with one call, and the places of the call in it
CallInputs ==
    {[content    |-> lead \o pushToken \o ws \o array \o ws \o <<")">> \o trail,
      start      |-> Len(lead),
      arrayStart |-> Len(lead) + Len(pushToken) + Len(ws),
      arrayEnd   |-> Len(lead) + Len(pushToken) + Len(ws) + Len(array) - 1,
      end        |-> Len(lead) + Len(pushToken) + 2 * Len(ws) + Len(array) + 1] :
        lead \in {<<>>, Chars("a]")}, ws \in {<<>>, <<" ">>},
        trail \in {<<>>, Chars("])")},
        array \in UNION {ArrayTexts(literal) : literal \in QuotedLiterals}}

\* ------------------------------------------------------------------------
\* Inputs: decoded values given to the tree builder
\* ------------------------------------------------------------------------
Descriptor(tag, props) == JArr(<<Str("$"), tag, JNull, props>>)

ChildrenOnly(children) == JObj(<<<<Chars("children"), children>>>>)

\* the elements a decoded sequence is made of in this model
TreeItems ==
    {Str("a"),
     JNum(7),
     JNull,
     JObj(<<<<Chars("k"), Str("v")>>>>),
     JArr(<<>>),
     JArr(<<Str("$"), Str("p"), JNull>>),
     JArr(<<Str("$"), Str("p")>>),
     Descriptor(Str("q"),
                JObj(<<<<Chars("id"), Str("x")>>,
                       <<Chars("children"),
                         JArr(<<Str("hi"), Descriptor(Str("b"), JObj(<<>>)),
                                JArr(<<Str("in"), JNum(1)>>), JNull>>)>>>>)),
     Descriptor(Str("s"), ChildrenOnly(Str(""))),
     Descriptor(Str("z"), ChildrenOnly(JNum(0))),
     Descriptor(Str(""), JObj(<<>>)),
     Descriptor(JNull, ChildrenOnly(Descriptor(JNum(5), Str("ab")))),
     JArr(<<Str("n"), JArr(<<Str("$"), Str("i"), JNull>>), JNum(3)>>),
     JArr(<<JArr(<<Str("deep")>>), JArr(<<Str("$")>>), JObj(<<>>),
            JArr(<<JArr(<<Str("$"), Str("u"), JNull>>)>>)>>)}

\* the values parseComponentStructure is applied to
TreeValues ==
    TreeItems \cup {JArr(items) : items \in UNION {[1..n -> TreeItems] : n \in 0..MaxItems}}

\* ------------------------------------------------------------------------
\* Inputs: a hit of the token that is rejected, and a call after it
\* ------------------------------------------------------------------------
\* the calls placed after the rejected token
LaterCalls == {GoodDiv, SampleInput, ModuleChunk, SpacedCall}

\* the whitespace put before the later call
Gaps == {<<>>, <<" ">>, <<"\n", " ">>}

\* the text between the rejected token and the gap, and the text after the
\* later call, by the way the hit is rejected and the place of the call
ResumeLayouts ==
    {[name |-> "tokenThenCall",   before |-> <<>>,          after |-> <<>>],
     [name |-> "wordThenCall",    before |-> Chars("x"),    after |-> <<>>],
     [name |-> "openArrayAround", before |-> Chars("[1,"),  after |-> <<>>],
     [name |-> "arrayAround",     before |-> Chars("["),    after |-> Chars("] x")],
     [name |-> "arrayThenCall",   before |-> Chars("[1]"),  after |-> <<>>],
     [name |-> "arrayWordThenCall", before |-> Chars("[1] x"), after |-> <<>>]}

\* the documents: the token, the layout's text, the gap, the call
ResumeInputs ==
    {[content |-> pushToken \o layout.before \o gap \o call \o layout.after,
      layout  |-> layout.name,
      hit     |-> 0,
      later   |-> Len(pushToken) + Len(layout.before) + Len(gap)] :
        layout \in ResumeLayouts, gap \in Gaps, call \in LaterCalls}

\* ------------------------------------------------------------------------
\* Inputs: a call around one payload string
\* ------------------------------------------------------------------------
\* the start of a payload string, up to its marker
PayloadKeys == {<<>>, Chars("4c"), Chars("Z9"), Chars("4 c"), Chars("-")}

PayloadMarks == {<<>>, Chars(":"), Chars(":I"), Chars(" :"), Chars("::")}

\* the rest of a payload string
PayloadBodies ==
    {<<>>,
     Chars("text"),
     Chars("["),
     <<"\"">> \o Chars("$Sreact.suspense") \o <<"\"">>,
     Chars("[") \o <<"\"">> \o Chars("$") \o <<"\"", ",", "\"">> \o Chars("p")
        \o <<"\"">> \o Chars(",null,{}]"),
     Chars("/static/chunks/a.js")}

\* the newline that ends the payloads of the stream, or nothing
PayloadTails == {<<>>, <<"\n">>}

PayloadStrings ==
    {key \o mark \o body \o tail :
        key \in PayloadKeys, mark \in PayloadMarks, body \in PayloadBodies,
        tail \in PayloadTails}

\* the call that pushes the payload string as the second element
CallAround(payload) ==
    pushToken \o Chars("[1,") \o QuoteString(payload) \o Chars("])")

\* ------------------------------------------------------------------------
\* State
\* ------------------------------------------------------------------------
VARIABLES
    pc,                 \* the position of the run
    shape,              \* how the input was put together
    content,            \* the argument of parseDocumentContent
    searchIndex,        \* extractPushCalls: the local searchIndex
    calls,              \* extractPushCalls: the local calls
    spans,              \* the start and afterArray of each accepted call
    results,            \* parseDocumentContent: the local results
    combinedComponents, \* parseDocumentContent: the local combinedComponents
    aggregate,          \* the value parseDocumentContent returned
    data,               \* the argument of parseComponentStructure
    nodes,              \* the value parseComponentStructure returned
    input,              \* app.tsx: the state input
    output,             \* app.tsx: the state output
    outputFormat,       \* app.tsx: the state outputFormat
    parseStatus,        \* app.tsx: the state parseStatus
    parseInfo,          \* app.tsx: the state parseInfo
    lastAggregate,      \* the aggregate of the latest handleParse
    download            \* the file handed to the browser by handleDownload

parserVars ==
    <<shape, content, searchIndex, calls, spans, results, combinedComponents,
      aggregate>>

treeVars == <<data, nodes>>

uiVars ==
    <<input, output, outputFormat, parseStatus, parseInfo, lastAggregate,
      download>>

vars == <<pc, parserVars, treeVars, uiVars>>

NoAggregate == [totalScripts |-> -1]

ParserAtStart ==
    /\ searchIndex = 0
    /\ calls = <<>>
    /\ spans = <<>>
    /\ results = <<>>
    /\ combinedComponents = <<>>
    /\ aggregate = NoAggregate

ParserUnused ==
    /\ shape = [kind |-> "none"]
    /\ content = <<>>
    /\ ParserAtStart

TreeUnused ==
    /\ data = JNull
    /\ nodes = <<>>

NoDownload == [extension |-> "none"]

\* the state of App before any event (app.tsx 6-12)
UIAtStart ==
    /\ input = <<>>
    /\ output = <<>>
    /\ outputFormat = "json"
    /\ parseStatus = "idle"
    /\ parseInfo = <<>>
    /\ lastAggregate = NoAggregate
    /\ download = NoDownload

\* ------------------------------------------------------------------------
\* A run of parseDocumentContent, one step per loop iteration
\* ------------------------------------------------------------------------
Init ==
    /\ pc = "extract"
    /\ \E picks \in SegmentPicks :
          /\ shape = [kind |-> "segments", picks |-> picks]
          /\ content = JoinSegments(picks, 1)
    /\ ParserAtStart
    /\ TreeUnused
    /\ UIAtStart

\* while (searchIndex < content.length) is false
ExtractExit ==
    /\ pc = "extract"
    /\ ~(searchIndex < Len(content))
    /\ pc' = "forEach"
    /\ UNCHANGED <<parserVars, treeVars, uiVars>>

\* start === -1: break
ExtractBreak ==
    /\ pc = "extract"
    /\ searchIndex < Len(content)
    /\ \E it \in {ExtractIteration(content, searchIndex)} :
          it.path = "break"
    /\ pc' = "forEach"
    /\ UNCHANGED <<parserVars, treeVars, uiVars>>

\* an iteration left by one of the three continue statements
ExtractReject(path) ==
    /\ pc = "extract"
    /\ searchIndex < Len(content)
    /\ \E it \in {ExtractIteration(content, searchIndex)} :
          /\ it.path = path
          /\ searchIndex' = it.next
    /\ UNCHANGED <<pc, shape, content, calls, spans, results,
                   combinedComponents, aggregate, treeVars, uiVars>>

\* cursor >= content.length || content[cursor] !== '['
ExtractNoBracket == ExtractReject("noBracket")

\* arrayEnd === -1
ExtractNoMatch == ExtractReject("noMatch")

\* afterArray >= content.length || content[afterArray] !== ')'
ExtractNoParen == ExtractReject("noParen")

\* an iteration that pushes a snippet
ExtractAccept ==
    /\ pc = "extract"
    /\ searchIndex < Len(content)
    /\ \E it \in {ExtractIteration(content, searchIndex)} :
          /\ it.path = "accept"
          /\ calls' = Append(calls, trim(substring(content, it.start, it.end)))
          /\ spans' = Append(spans, <<it.start, it.end>>)
          /\ searchIndex' = it.next
    /\ UNCHANGED <<pc, shape, content, results, combinedComponents, aggregate,
                   treeVars, uiVars>>

\* pushCalls.length === 0
ReturnEmpty ==
    /\ pc = "forEach"
    /\ Len(calls) = 0
    /\ aggregate' = EmptyAggregate
    /\ pc' = "done"
    /\ UNCHANGED <<shape, content, searchIndex, calls, spans, results,
                   combinedComponents, treeVars, uiVars>>

\* one call of the forEach callback
ParseSnippet ==
    /\ pc = "forEach"
    /\ Len(results) < Len(calls)
    /\ \E acc \in {ForEachBody([results |-> results,
                                 combinedComponents |-> combinedComponents],
                                calls[Len(results) + 1], Len(results))} :
          /\ results' = acc.results
          /\ combinedComponents' = acc.combinedComponents
    /\ UNCHANGED <<pc, shape, content, searchIndex, calls, spans, aggregate,
                   treeVars, uiVars>>

\* the counts and the return
ReturnAggregate ==
    /\ pc = "forEach"
    /\ Len(calls) > 0
    /\ Len(results) = Len(calls)
    /\ aggregate' = Aggregate(results, combinedComponents)
    /\ pc' = "done"
    /\ UNCHANGED <<shape, content, searchIndex, calls, spans, results,
                   combinedComponents, treeVars, uiVars>>

Next ==
    \/ ExtractExit
    \/ ExtractBreak
    \/ ExtractNoBracket
    \/ ExtractNoMatch
    \/ ExtractNoParen
    \/ ExtractAccept
    \/ ReturnEmpty
    \/ ParseSnippet
    \/ ReturnAggregate

Spec == Init /\ [][Next]_vars

\* ------------------------------------------------------------------------
\* extractPushCalls on a call whose string literal holds brackets
\* ------------------------------------------------------------------------
InitBracket ==
    /\ pc = "extract"
    /\ \E in \in CallInputs :
          /\ shape = [kind |-> "call", start |-> in.start,
                      arrayStart |-> in.arrayStart, arrayEnd |-> in.arrayEnd,
                      end |-> in.end]
          /\ content = in.content
    /\ ParserAtStart
    /\ TreeUnused
    /\ UIAtStart

NextBracket ==
    \/ ExtractExit
    \/ ExtractBreak
    \/ ExtractAccept

SpecBracket == InitBracket /\ [][NextBracket]_vars

\* ------------------------------------------------------------------------
\* parseComponentStructure on a decoded value
\* ------------------------------------------------------------------------
InitTree ==
    /\ pc = "build"
    /\ data \in TreeValues
    /\ nodes = <<>>
    /\ ParserUnused
    /\ UIAtStart

BuildTree ==
    /\ pc = "build"
    /\ nodes' = parseComponentStructure(data)
    /\ pc' = "done"
    /\ UNCHANGED <<data, parserVars, uiVars>>

NextTree == BuildTree

SpecTree == InitTree /\ [][NextTree]_vars

\* ------------------------------------------------------------------------
\* extractPushCalls on a rejected hit of the token followed by a call
\* ------------------------------------------------------------------------
InitResume ==
    /\ pc = "extract"
    /\ \E in \in ResumeInputs :
          /\ shape = [kind |-> "resume", layout |-> in.layout,
                      hit |-> in.hit, later |-> in.later]
          /\ content = in.content
    /\ ParserAtStart
    /\ TreeUnused
    /\ UIAtStart

NextResume ==
    \/ ExtractExit
    \/ ExtractBreak
    \/ ExtractNoBracket
    \/ ExtractNoMatch
    \/ ExtractNoParen
    \/ ExtractAccept

SpecResume == InitResume /\ [][NextResume]_vars

\* ------------------------------------------------------------------------
\* parseDocumentContent on one call around a payload string
\* ------------------------------------------------------------------------
InitPayload ==
    /\ pc = "extract"
    /\ \E payload \in PayloadStrings :
          /\ shape = [kind |-> "payload", payload |-> payload]
          /\ content = CallAround(payload)
    /\ ParserAtStart
    /\ TreeUnused
    /\ UIAtStart

NextPayload ==
    \/ ExtractExit
    \/ ExtractAccept
    \/ ParseSnippet
    \/ ReturnAggregate

SpecPayload == InitPayload /\ [][NextPayload]_vars

\* ------------------------------------------------------------------------
\* The page (app.tsx): one action per event handler
\* ------------------------------------------------------------------------
\* app.tsx 134; the template literal yields the text of the SampleInput call
sampleInput == SampleInput

\* the texts typed or pasted into the input area
InputTexts ==
    {<<>>, GoodDiv, ModuleChunk, SpacedCall, NotACall,
     JoinWith(<<GoodDiv, BadPayload>>, <<"\n">>),
     JoinWith(<<Structured, ModuleChunk>>, <<"\n">>)}

\* app.tsx 37-44: the text for one failing result
FailureDetail(result) ==
    LET reason == IF result.error \in {Undefined, ""}
                  THEN Chars("Unknown error") ELSE Chars(result.error)
        typeHint == IF result.dataType = "module-loading"
                    THEN Chars(" (module-loading payload)") ELSE <<>>
    IN  <<"#">> \o NatChars(result.index + 1) \o <<":", " ">> \o reason
          \o typeHint \o <<"\n">> \o Chars("   Snippet: ")
          \o result.snippetPreview

\* app.tsx 34-46
FailureDetails(agg) ==
    LET failed == SelectSeq(agg.results, LAMBDA r : ~r.success) IN
    JoinWith([i \in 1..Len(failed) |-> FailureDetail(failed[i])],
             <<"\n", "\n">>)

\* app.tsx 48-51
ModuleSummary(agg) ==
    IF agg.moduleLoadingCount > 0
    THEN <<" ">> \o NatChars(agg.moduleLoadingCount)
         \o Chars(" call(s) contained module/chunk metadata and were skipped.")
    ELSE <<>>

\* app.tsx 55-60: summary + warning + moduleSummary
SuccessInfo(agg) ==
    Chars("Parsed ") \o NatChars(agg.successCount) \o Chars(" / ")
      \o NatChars(agg.totalScripts)
      \o Chars(" self.__next_f.push call(s). Extracted ")
      \o NatChars(Len(agg.combinedComponents)) \o Chars(" component node(s).")
      \o (IF agg.failureCount > 0
          THEN <<" ">> \o NatChars(agg.failureCount)
               \o Chars(" call(s) could not be parsed.")
          ELSE <<>>)
      \o ModuleSummary(agg)

\* app.tsx 62-65
BaseOutput(components, format) ==
    IF format = "json" THEN formatAsReadableJson(components)
    ELSE formatAsReactComponents(components)

\* app.tsx 62-71: the output of a parse with component-data successes
SuccessOutput(agg, format) ==
    IF agg.failureCount > 0
    THEN BaseOutput(agg.combinedComponents, format)
         \o <<"\n", "\n">> \o Chars("Failures:") \o <<"\n">>
         \o FailureDetails(agg)
    ELSE BaseOutput(agg.combinedComponents, format)

\* app.tsx 92-97: [failureDetails, moduleSummary.trim()].filter(Boolean)
\* .join('\n\n') || '...'
FallbackOutput(agg) ==
    LET parts == SelectSeq(<<FailureDetails(agg), trim(ModuleSummary(agg))>>,
                           LAMBDA p : p # <<>>)
        fallback == JoinWith(parts, <<"\n", "\n">>)
    IN  IF fallback # <<>> THEN fallback
        ELSE Chars("All detected script payloads were non-component data.")

\* app.tsx 23-97: the state that handleParse sets for the aggregate agg
\* (parseDocumentContent does not throw, so the catch at 98-103 is not
\* entered)
ParseOutcome(agg, format) ==
    IF agg.totalScripts = 0
    THEN [status |-> "error",
          info   |-> Chars("No self.__next_f.push(...) calls found in the provided input."),
          output |-> Chars("No Next.js script payloads detected. Paste the contents of <head> or relevant script tags.")]
    ELSE IF agg.successCount > 0
    THEN [status |-> "success",
          info   |-> SuccessInfo(agg),
          output |-> SuccessOutput(agg, format)]
    ELSE IF agg.moduleLoadingCount > 0 /\ agg.failureCount = 0
    THEN [status |-> "success",
          info   |-> Chars("Detected ") \o NatChars(agg.moduleLoadingCount)
                     \o Chars(" module/chunk payload(s); no React component data found."),
          output |-> Chars("All detected payloads were module/chunk metadata (no components to render).")]
    ELSE [status |-> "error",
          info   |-> Chars("Unable to parse any self.__next_f.push call from the input."),
          output |-> FallbackOutput(agg)]

InitUI ==
    /\ pc = "ui"
    /\ UIAtStart
    /\ ParserUnused
    /\ TreeUnused

\* onInput of the input area
setInput ==
    /\ pc = "ui"
    /\ \E text \in InputTexts : input' = text
    /\ UNCHANGED <<pc, output, outputFormat, parseStatus, parseInfo,
                   lastAggregate, download, parserVars, treeVars>>

\* the Use Sample button
useSample ==
    /\ pc = "ui"
    /\ input' = sampleInput
    /\ UNCHANGED <<pc, output, outputFormat, parseStatus, parseInfo,
                   lastAggregate, download, parserVars, treeVars>>

\* the Parse button
handleParse ==
    /\ pc = "ui"
    /\ \E agg \in {parseDocumentContent(input)} :
       \E outcome \in {ParseOutcome(agg, outputFormat)} :
          /\ lastAggregate' = agg
          /\ parseStatus' = outcome.status
          /\ parseInfo' = outcome.info
          /\ output' = outcome.output
    /\ UNCHANGED <<pc, input, outputFormat, download, parserVars, treeVars>>

\* the Clear button
handleClear ==
    /\ pc = "ui"
    /\ input' = <<>>
    /\ output' = <<>>
    /\ parseStatus' = "idle"
    /\ parseInfo' = <<>>
    /\ UNCHANGED <<pc, outputFormat, lastAggregate, download, parserVars,
                   treeVars>>

\* the JSON and React buttons: onClick={() => setOutputFormat(format)}
setOutputFormat(format) ==
    /\ pc = "ui"
    /\ outputFormat' = format
    /\ UNCHANGED <<pc, input, output, parseStatus, parseInfo, lastAggregate,
                   download, parserVars, treeVars>>

selectJson == setOutputFormat("json")

selectReact == setOutputFormat("react")

\* the Download File button (the timestamp of the file name is left out)
handleDownload ==
    /\ pc = "ui"
    /\ output # <<>>
    /\ download' =
          [extension |-> IF outputFormat = "json" THEN "json" ELSE "tsx",
           mimeType  |-> IF outputFormat = "json" THEN "application/json"
                         ELSE "text/plain",
           content   |-> output]
    /\ UNCHANGED <<pc, input, output, outputFormat, parseStatus, parseInfo,
                   lastAggregate, parserVars, treeVars>>

NextUI ==
    \/ setInput
    \/ useSample
    \/ handleParse
    \/ handleClear
    \/ selectJson
    \/ selectReact
    \/ handleDownload

SpecUI == InitUI /\ [][NextUI]_vars

\* ------------------------------------------------------------------------
\* Properties
\* ------------------------------------------------------------------------
IsFailure(r) ==
    ~r.success /\ r.error \notin {Undefined, ""} /\ r.components = <<>>

\* C1: parseDocumentContent returns with exactly one outcome per snippet
\* that extractPushCalls returned, in extraction order and numbered from 0;
\* a snippet whose decoding throws yields one Failure with a non-empty
\* error, and the snippets after it still get their outcomes.  Every step
\* of the run before the return can be taken: an extraction iteration
\* breaks or moves searchIndex forward, and the callback records one
\* outcome for the next snippet.
C1_OneOutcomePerSnippet ==
    /\ Len(results) <= Len(calls)
    /\ \A i \in 1..Len(results) :
          /\ results[i].index = i - 1
          /\ results[i].snippetPreview = SnippetPreview(calls[i])
          /\ results[i].success \/ IsFailure(results[i])
          /\ extractDataFromScript(calls[i]).threw => IsFailure(results[i])
    /\ pc = "done" =>
          /\ calls = extractPushCalls(content)
          /\ Len(results) = Len(calls)
          /\ aggregate.results = results
          /\ aggregate.totalScripts = Len(calls)
    /\ pc \in {"extract", "forEach", "done"}
    /\ pc = "extract" /\ searchIndex < Len(content) =>
          \E it \in {ExtractIteration(content, searchIndex)} :
             \/ it.path = "break"
             \/ /\ it.path \in {"noBracket", "noMatch", "noParen", "accept"}
                /\ it.next > searchIndex

\* a run in which a snippet that failed to decode is followed by a success
C1_Witness ==
    /\ pc = "done"
    /\ \E i \in 1..Len(results) : \E j \in (i + 1)..Len(results) :
          /\ extractDataFromScript(calls[i]).threw
          /\ ~aggregate.results[i].success
          /\ aggregate.results[j].success

IsComponentData(r) == r.success /\ r.dataType = "component-data"

IsModuleLoading(r) == r.success /\ r.dataType = "module-loading"

\* C2: in the returned aggregate the three counts are the numbers of
\* component-data successes, module-loading successes and failures, and
\* they add up to totalScripts, the length of results.
C2_CountsPartition ==
    pc = "done" =>
       LET r == aggregate.results
           n == Len(aggregate.results)
       IN  /\ aggregate.successCount =
                 Cardinality({i \in 1..n : IsComponentData(r[i])})
           /\ aggregate.moduleLoadingCount =
                 Cardinality({i \in 1..n : IsModuleLoading(r[i])})
           /\ aggregate.failureCount =
                 Cardinality({i \in 1..n : ~r[i].success})
           /\ aggregate.totalScripts = n
           /\ aggregate.successCount + aggregate.moduleLoadingCount
                + aggregate.failureCount = aggregate.totalScripts

\* a run with an outcome of each of the three classes
C2_Witness ==
    /\ pc = "done"
    /\ aggregate.successCount >= 1
    /\ aggregate.moduleLoadingCount >= 1
    /\ aggregate.failureCount >= 1

RECURSIVE Contributions(_, _)
\* the nodes of the component-data successes from the i-th outcome on
Contributions(res, i) ==
    IF i > Len(res) THEN <<>>
    ELSE (IF IsComponentData(res[i]) THEN res[i].components ELSE <<>>)
           \o Contributions(res, i + 1)

\* C3: combinedComponents is the concatenation, in call order, of the node
\* sequences of the component-data successes; module-loading outcomes and
\* failures hold no nodes.
C3_CombinedInCallOrder ==
    pc = "done" =>
       /\ aggregate.combinedComponents = Contributions(aggregate.results, 1)
       /\ \A i \in 1..Len(aggregate.results) :
             ~IsComponentData(aggregate.results[i])
                => aggregate.results[i].components = <<>>

\* a run with two calls that contribute different nodes, one of them
\* several nodes
C3_Witness ==
    /\ pc = "done"
    /\ \E i \in 1..Len(aggregate.results) :
       \E j \in (i + 1)..Len(aggregate.results) :
          /\ IsComponentData(aggregate.results[i])
          /\ IsComponentData(aggregate.results[j])
          /\ Len(aggregate.results[i].components) >= 2
          /\ Len(aggregate.results[j].components) >= 1
          /\ aggregate.results[i].components # aggregate.results[j].components

\* the nodes of the two well-formed calls, written out
GoodDivNodes ==
    <<Component("component", Str("div"),
                <<<<Chars("className"), Str("a")>>>>, TRUE, <<Str("hi")>>)>>

SampleInputNodes ==
    <<TextNode(JStr(Chars("4c:") \o <<"\"">> \o Chars("$Sreact.suspense")
                      \o <<"\"">>))>>

NodesOf(call) == IF call = GoodDiv THEN GoodDivNodes ELSE SampleInputNodes

WellFormedCalls == {GoodDiv, SampleInput}

\* calls with an unbalanced bracket: inside the payload string, and in the
\* array argument itself
UnbalancedInPayload == {BadPayload, BadPayloadExtra}

UnbalancedInArray == {OpenArray, ExtraClose}

\* the input is two calls, the k-th malformed as given and the other
\* well-formed
TwoCallsOneOf(malformed, k) ==
    /\ shape.kind = "segments"
    /\ Len(shape.picks) = 2
    /\ Segments[shape.picks[k]] \in malformed
    /\ Segments[shape.picks[3 - k]] \in WellFormedCalls

\* the result of the end-to-end example, the k-th call being the malformed
OneFailureOneSuccess(k) ==
    /\ aggregate.totalScripts = 2
    /\ aggregate.successCount = 1
    /\ aggregate.failureCount = 1
    /\ aggregate.combinedComponents = NodesOf(Segments[shape.picks[3 - k]])
    /\ IsFailure(aggregate.results[k])
    /\ Len(aggregate.results[k].snippetPreview) <= PreviewLength

\* the malformed call is not among the outcomes at all
OnlyTheWellFormed(k) ==
    /\ aggregate.totalScripts = 1
    /\ aggregate.successCount = 1
    /\ aggregate.failureCount = 0
    /\ aggregate.combinedComponents = NodesOf(Segments[shape.picks[3 - k]])

\* C4 as stated: two calls, one malformed by an unbalanced bracket, give
\* totalScripts = 2, successCount = 1, failureCount = 1, the nodes of the
\* well-formed call only, and a failing outcome with a non-empty error and
\* a preview of at most 120 characters.
C4_AnyUnbalancedBracket ==
    \A k \in 1..2 :
       pc = "done" /\ TwoCallsOneOf(UnbalancedInPayload \cup UnbalancedInArray, k)
          => OneFailureOneSuccess(k)

\* C4 amended: that result is the one of a call whose unbalanced bracket is
\* inside its component-data payload string; a call whose array argument
\* itself is unbalanced is not extracted, and the result is that of the
\* well-formed call alone.
C4_UnbalancedInPayload ==
    \A k \in 1..2 :
       /\ pc = "done" /\ TwoCallsOneOf(UnbalancedInPayload, k)
             => OneFailureOneSuccess(k)
       /\ pc = "done" /\ TwoCallsOneOf(UnbalancedInArray, k)
             => OnlyTheWellFormed(k)

\* a run of the example whose failing call is longer than its preview
C4_Witness ==
    /\ pc = "done"
    /\ TwoCallsOneOf(UnbalancedInPayload, 2)
    /\ OneFailureOneSuccess(2)
    /\ Len(calls[2]) > PreviewLength
    /\ Len(aggregate.results[2].snippetPreview) = PreviewLength

\* C5: brackets and parentheses inside a string literal of the array
\* argument do not move the match: findMatchingBracket returns the bracket
\* that closes the argument, and the snippet starts and ends at the call.
C5_StringsDoNotMoveTheMatch ==
    shape.kind = "call" =>
       /\ findMatchingBracket(content, shape.arrayStart) = shape.arrayEnd
       /\ pc = "extract" /\ searchIndex = 0 =>
             \E it \in {ExtractIteration(content, 0)} :
                /\ it.path = "accept"
                /\ it.start = shape.start
                /\ it.end = shape.end
       /\ pc # "extract" \/ searchIndex > 0 =>
             /\ spans = <<<<shape.start, shape.end>>>>
             /\ calls = <<substring(content, shape.start, shape.end)>>

\* an accepted call whose string literal holds a closing bracket followed
\* by a closing parenthesis
C5_Witness ==
    /\ shape.kind = "call"
    /\ spans = <<<<shape.start, shape.end>>>>
    /\ \E k \in (shape.arrayStart + 1)..(shape.arrayEnd - 2) :
          CharAt(content, k) = "]" /\ CharAt(content, k + 1) = ")"

\* the second element of the array a call decodes to, if it has one
SecondOf(parsed) ==
    IF parsed.ok /\ IsArray(parsed.val) /\ Len(parsed.val.v) >= 2
    THEN [found |-> TRUE, val |-> parsed.val.v[2]]
    ELSE [found |-> FALSE, val |-> JNull]

DecodedSecond(cleanContent) ==
    IF cleanContent.threw THEN [found |-> FALSE, val |-> JNull]
    ELSE SecondOf(JSONparse(cleanContent.value))

SecondElement(snippet) == DecodedSecond(extractDataFromScript(snippet))

\* the string matches ^[0-9a-f]+:I\[
HasModuleKey(cs) ==
    \E n \in 1..Len(cs) :
       /\ \A k \in 1..n : cs[k] \in HexLowerChars
       /\ n + 3 <= Len(cs)
       /\ SubSeq(cs, n + 1, n + 3) = <<":", "I", "[">>

\* the string contains static/chunks/
HoldsChunkPath(cs) ==
    \E k \in 1..Len(cs) :
       /\ k + 13 <= Len(cs)
       /\ SubSeq(cs, k, k + 13) = Chars("static/chunks/")

\* the string matches ^[0-9a-z]+:\[ without regard to case
HasComponentKey(cs) ==
    \E n \in 1..Len(cs) :
       /\ \A k \in 1..n : cs[k] \in DigitChars \cup LowerChars \cup UpperChars
       /\ n + 2 <= Len(cs)
       /\ SubSeq(cs, n + 1, n + 2) = <<":", "[">>

IsModulePayload(second) ==
    /\ second.found
    /\ IsString(second.val)
    /\ HasModuleKey(second.val.v) \/ HoldsChunkPath(second.val.v)

\* C6: a call whose decoded second element is a string that matches
\* ^[0-9a-f]+:I\[ or contains static/chunks/ yields a Success tagged
\* module-loading with no nodes, also when the string matches the
\* component-data pattern.
C6_ModuleLoadingWins ==
    \A i \in 1..Len(results) :
       IsModulePayload(SecondElement(calls[i]))
          => /\ results[i].success
             /\ results[i].dataType = "module-loading"
             /\ results[i].components = <<>>

\* an outcome for a string that holds static/chunks/ and matches the
\* component-data pattern
C6_Witness ==
    \E i \in 1..Len(results) :
       \E second \in {SecondElement(calls[i])} :
          /\ IsModulePayload(second)
          /\ HasComponentKey(second.val.v)
          /\ ~HasModuleKey(second.val.v)
          /\ results[i].dataType = "module-loading"

RECURSIVE SomeElement(_, _)
\* some Element among the nodes, at any depth, satisfies Bad
SomeElement(Bad(_), ns) ==
    \E i \in 1..Len(ns) :
       /\ ns[i].t = "node"
       /\ \/ ns[i].type = "component" /\ Bad(ns[i])
          \/ SomeElement(Bad, ns[i].children)

HasChildrenProp(node) == ObjHas(node.props, Chars("children"))

HasNoTagName(node) == ~IsString(node.component) \/ node.component.v = <<>>

\* C8: no Element that the tree builder produces, at any depth, has a
\* props key named children, whatever the value of the entry was.
C8_NoChildrenProp ==
    pc = "done" => ~SomeElement(HasChildrenProp, nodes)

\* C9: every Element in an output of parseDocumentContent, at any depth,
\* has a non-empty tag name.
C9_NonEmptyTag ==
    pc = "done" => ~SomeElement(HasNoTagName, aggregate.combinedComponents)

IsDollarHeaded(x) == IsArray(x) /\ Len(x.v) > 0 /\ IsTheString(x.v[1], "$")

IsDescriptor(x) == IsDollarHeaded(x) /\ Len(x.v) >= 3

RECURSIVE FlattenAll(_, _)
RECURSIVE FlattenItem(_)

\* the nodes one element of a sequence stands for
FlattenItem(item) ==
    IF IsString(item) THEN <<TextNode(item)>>
    ELSE IF IsDescriptor(item) THEN <<parseComponent(item.v)>>
    ELSE IF IsDollarHeaded(item) THEN <<>>
    ELSE IF IsArray(item) THEN FlattenAll(item.v, 1)
    ELSE <<>>

\* the nodes of the elements from the i-th on, left to right
FlattenAll(items, i) ==
    IF i > Len(items) THEN <<>>
    ELSE FlattenItem(items[i]) \o FlattenAll(items, i + 1)

\* C10: for a sequence that does not start with "$", the result is the
\* left-to-right, depth-first flattening of its elements: a Text per
\* string, an Element per descriptor, the nodes of any other sequence in
\* its place, nothing for a short "$"-headed sequence, a scalar, null or a
\* mapping.
C10_DepthFirstFlattening ==
    pc = "done" /\ IsArray(data) /\ ~IsDollarHeaded(data)
       => /\ nodes = FlattenAll(data.v, 1)
          /\ \A i \in 1..Len(nodes) :
                nodes[i].t = "node" /\ nodes[i].type \in {"text", "component"}

\* a sequence with a nested sequence that is no descriptor and stands for
\* several nodes, next to other elements
C10_Witness ==
    /\ pc = "done"
    /\ IsArray(data)
    /\ ~IsDollarHeaded(data)
    /\ Len(data.v) >= 2
    /\ \E k \in 1..Len(data.v) :
          /\ IsArray(data.v[k])
          /\ ~IsDollarHeaded(data.v[k])
          /\ Len(FlattenItem(data.v[k])) >= 2
    /\ Len(nodes) >= 3

\* C7: after a parse that succeeded with extracted components, the output
\* pane shows the components of that parse in the selected format, also
\* after the format was switched and without another parse.
C7_OutputFollowsFormat ==
    /\ pc = "ui"
    /\ parseStatus = "success"
    /\ lastAggregate.totalScripts > 0
    /\ lastAggregate.successCount > 0
    => output = SuccessOutput(lastAggregate, outputFormat)

\* the token at position p starts a call: optional whitespace, a
\* bracket-balanced array, optional whitespace and a closing parenthesis
IsCallAt(text, p) ==
    /\ StartsWithAt(text, pushToken, p)
    /\ \E it \in {ExtractIteration(text, p)} :
          it.path = "accept" /\ it.start = p

\* the hit of the token at position p is one that the extractor rejects
IsRejectedAt(text, p) ==
    /\ StartsWithAt(text, pushToken, p)
    /\ \E it \in {ExtractIteration(text, p)} :
          it.path \in {"noBracket", "noMatch", "noParen"} /\ it.start = p

\* C11: a call that begins after a rejected hit of the token, also at the
\* first non-whitespace character after the token or inside the array of
\* the rejected hit, is among the snippets that extractPushCalls returns.
C11_LaterCallReturned ==
    /\ shape.kind = "resume"
    /\ pc = "forEach"
    /\ IsRejectedAt(content, shape.hit)
    /\ IsCallAt(content, shape.later)
    => \E i \in 1..Len(spans) :
          /\ spans[i][1] = shape.later
          /\ calls[i] = trim(substring(content, spans[i][1], spans[i][2]))

\* the two errors of extractDataFromScript for a snippet without the prefix
\* or without the closing marker after it
FormatErrors ==
    {"Invalid Next.js script format",
     "Invalid Next.js script format - mismatched brackets"}

\* C12: for every snippet that extractPushCalls returned, also one with
\* whitespace inside the parentheses, extractDataFromScript finds the
\* prefix and the closing marker: it throws neither of the two format
\* errors.
C12_SnippetsPreValidated ==
    \A i \in 1..Len(calls) :
       \A cleanContent \in {extractDataFromScript(calls[i])} :
          ~(cleanContent.threw /\ cleanContent.message \in FormatErrors)

\* C13: extractPushCalls terminates: an iteration that does not break
\* sets searchIndex to a strictly greater value, on each of its four paths,
\* and searchIndex never passes the end of the input by more than one; the
\* snippets are in increasing start position and do not overlap.
C13_ProgressAndOrder ==
    /\ searchIndex >= 0
    /\ searchIndex <= Len(content) + 1
    /\ pc = "extract" /\ searchIndex < Len(content) =>
          \E it \in {ExtractIteration(content, searchIndex)} :
             \/ it.path = "break"
             \/ /\ it.path \in {"noBracket", "noMatch", "noParen", "accept"}
                /\ it.next > searchIndex
                /\ it.next <= Len(content) + 1
    /\ Len(calls) = Len(spans)
    /\ \A i \in 1..Len(spans) :
          /\ 0 <= spans[i][1]
          /\ spans[i][1] < spans[i][2]
          /\ spans[i][2] <= Len(content)
          /\ spans[i][2] <= searchIndex
          /\ i > 1 => spans[i - 1][2] <= spans[i][1]

\* the end of an extraction that returned several snippets and rejected a
\* hit of the token
C13_Witness ==
    /\ pc = "forEach"
    /\ Len(spans) >= 2
    /\ \E p \in 0..(Len(content) - 1) : IsRejectedAt(content, p)

\* the decoded second element is a string of neither type
IsUnknownPayload(second) ==
    /\ second.found
    /\ IsString(second.val)
    /\ ~HasModuleKey(second.val.v)
    /\ ~HoldsChunkPath(second.val.v)
    /\ ~HasComponentKey(second.val.v)

\* the Text node for the string
TextOf(string) ==
    [t |-> "node", type |-> "text", component |-> Str("text"),
     props |-> <<<<Chars("content"), string>>>>,
     hasChildren |-> FALSE, children |-> <<>>]

\* C14: a call whose decoded second element is a string that is neither
\* module-loading nor component-data yields a Success tagged
\* component-data with exactly one Text node, whose content is the whole
\* string, and the outcome is counted in successCount.
C14_UnknownStringIsText ==
    \A i \in 1..Len(results) :
       \A second \in {SecondElement(calls[i])} :
          IsUnknownPayload(second)
             => /\ results[i].success
                /\ results[i].dataType = "component-data"
                /\ results[i].components = <<TextOf(second.val)>>
                /\ pc = "done" =>
                      /\ IsComponentData(aggregate.results[i])
                      /\ aggregate.successCount =
                            Cardinality({j \in 1..Len(aggregate.results) :
                                          IsComponentData(aggregate.results[j])})
                      /\ aggregate.successCount >= 1

\* the return for a string of unknown type that holds a colon followed by
\* a text that JSON.parse accepts
C14_Witness ==
    /\ pc = "done"
    /\ shape.kind = "payload"
    /\ Len(results) = 1
    /\ \E second \in {SecondElement(calls[1])} :
          /\ IsUnknownPayload(second)
          /\ includes(second.val.v, <<":">>)
          /\ JSONparse(substringFrom(second.val.v,
                         indexOf(second.val.v, <<":">>, 0) + 1)).ok
          /\ aggregate.combinedComponents = <<TextOf(second.val)>>
          /\ aggregate.successCount = 1

====
